---- MODULE Spec2Model ----
(***************************************************************************)
(* A state-machine model of js/main.js of the MindWell page: the shared    *)
(* AppState, the cached navigation elements, the active nav link, the      *)
(* emergency modals in the document, and Utils.debounce.                   *)
(*                                                                         *)
(* Every event handler runs to completion (the browser dispatches one      *)
(* event at a time), so one action is one dispatched event: all listeners  *)
(* on its path, in attachment order.                                       *)
(*                                                                         *)
(* What the markup decides is an input drawn in Init: which of the         *)
(* optional elements exist, the ARIA attributes they carry before any      *)
(* script has run, the links marked active, the URL fragment and the       *)
(* viewport width.  The 'active' class of the menu and of the toggle       *)
(* starts absent: toggleMobileNav flips it with classList.toggle beside a  *)
(* navigationActive that starts false.                                     *)
(***************************************************************************)
EXTENDS Integers, Sequences, FiniteSets, TLC

VARIABLES
  pc,            \* "loading" until DOMContentLoaded has run initializeApp
  AppState,      \* the AppState object
  navToggle,     \* the element DOM.navToggle refers to (or its absence)
  navMenu,       \* the element DOM.navMenu refers to (or its absence)
  activeLinks,   \* the nav links (indices of NavLinkHrefs) carrying 'active'
  innerWidth,    \* window.innerWidth
  locationHash,  \* window.location.hash
  modals,        \* the emergency modals that are children of body, in order
  focus,         \* document.activeElement
  keyboardNav,   \* body carries the class 'keyboard-nav'
  scrollCalls,   \* the scrollToSection calls of the last dispatched event
  alerts,        \* the alert() messages of the last dispatched event
  toggled,       \* history: toggleMobileNav has run
  lastEvent,     \* history: the event dispatched last
  timeout,       \* Utils.debounce: the closure's variable `timeout`
  timers,        \* the browser's pending setTimeout timers
  clock,         \* the time, in units of the timer resolution
  calls,         \* history: the calls of the debounced function
  invocations,   \* history: the invocations of the debounced `func`
  ripples,       \* the ripple overlays that are children of a button
  rippleTimers,  \* the pending removal timers of createRippleEffect
  removals       \* history: the ripples taken out of the document, in order

uiVars == <<pc, AppState, navToggle, navMenu, activeLinks, innerWidth,
            locationHash, modals, focus, keyboardNav, scrollCalls, alerts,
            toggled, lastEvent>>
debounceVars == <<timeout, timers, clock, calls, invocations>>
rippleVars == <<ripples, rippleTimers, removals>>
vars == <<uiVars, debounceVars, rippleVars>>

(***************************************************************************)
(* Bounds of the model and program constants.                              *)
(***************************************************************************)
MaxModals == 2
MaxCalls == 3
MaxTime == 5

MobileBreakpoint == 768
Wait == 2
MaxRipples == 2
TickMs == 300
RippleDuration == 600

Widths == {MobileBreakpoint, MobileBreakpoint + 1}
NavLinkHrefs == <<"#home", "#features", "#feat", "about.html">>
NavLinks == 1..Len(NavLinkHrefs)
LocationHashes == {"", "#feat"}
SectionIds == {"home", "features", "main"}
Keys == {"Escape", "Tab"}
\* The textContent of the hero buttons, as the markup may lay it out.
HeroButtons == <<"Get Started", "\n  Learn More ", "Learn More Now", "Learn More">>

(***************************************************************************)
(* String helpers, as the JavaScript String methods compute them.          *)
(***************************************************************************)
substring(s, n) == SubSeq(s, n + 1, Len(s))

startsWith(s, p) == Len(s) >= Len(p) /\ SubSeq(s, 1, Len(p)) = p

toString(b) == IF b THEN "true" ELSE "false"

WhiteSpace == {" ", "\n", "\t"}

RECURSIVE trimStart(_)
trimStart(s) ==
  IF Len(s) > 0 /\ SubSeq(s, 1, 1) \in WhiteSpace
  THEN trimStart(SubSeq(s, 2, Len(s)))
  ELSE s

RECURSIVE trimEnd(_)
trimEnd(s) ==
  IF Len(s) > 0 /\ SubSeq(s, Len(s), Len(s)) \in WhiteSpace
  THEN trimEnd(SubSeq(s, 1, Len(s) - 1))
  ELSE s

trim(s) == trimEnd(trimStart(s))

(***************************************************************************)
(* Elements.  An element that the markup lacks has present = FALSE; the    *)
(* optional-chaining and `if (DOM.x)` guards of the code skip it.          *)
(***************************************************************************)
classListToggle(el) == IF el.present THEN [el EXCEPT !.active = ~@] ELSE el

classListRemove(el) == IF el.present THEN [el EXCEPT !.active = FALSE] ELSE el

setAttribute(el, value) == IF el.present THEN [el EXCEPT !.aria = value] ELSE el

\* What the markup can give the toggle and the menu before any script runs.
InitialToggles ==
  { [present |-> FALSE, active |-> FALSE, aria |-> "unset"] } \cup
  { [present |-> TRUE, active |-> FALSE, aria |-> a] : a \in {"unset", "false"} }

InitialMenus ==
  { [present |-> FALSE, active |-> FALSE, aria |-> "unset"] } \cup
  { [present |-> TRUE, active |-> FALSE, aria |-> a] : a \in {"unset", "true"} }

\* The navigation state the handlers below read and write.
Nav == [AppState |-> AppState, navMenu |-> navMenu, navToggle |-> navToggle]

(***************************************************************************)
(* Navigation controller.                                                  *)
(***************************************************************************)
\* Mutant: the menu's class is added where the code toggles it.
toggleMobileNavAddsClass(n) ==
  LET expanded == ~n.AppState.navigationActive
      added    == IF n.navMenu.present
                  THEN [n.navMenu EXCEPT !.active = TRUE]
                  ELSE n.navMenu
  IN  [AppState  |-> [n.AppState EXCEPT !.navigationActive = expanded],
       navMenu   |-> setAttribute(added, toString(~expanded)),
       navToggle |-> setAttribute(classListToggle(n.navToggle), toString(expanded))]

toggleMobileNav(n) ==
  LET expanded == ~n.AppState.navigationActive
  IN  [AppState  |-> [n.AppState EXCEPT !.navigationActive = expanded],
       navMenu   |-> setAttribute(classListToggle(n.navMenu), toString(~expanded)),
       navToggle |-> setAttribute(classListToggle(n.navToggle), toString(expanded))]

updateMobileNavigation(n, width) ==
  LET isMobile == width <= MobileBreakpoint
  IN  IF ~isMobile /\ n.AppState.navigationActive
      THEN [AppState  |-> [n.AppState EXCEPT !.navigationActive = FALSE],
            navMenu   |-> classListRemove(n.navMenu),
            navToggle |-> classListRemove(n.navToggle)]
      ELSE n

\* Mutant: the resize handler leaves the closing to updateMobileNavigation.
handleWindowResizeWithoutToggle(n, width) == updateMobileNavigation(n, width)

\* Mutant: the resize handler closes an open nav at any width.
handleWindowResizeAnyWidth(n, width) ==
  LET closed == IF n.AppState.navigationActive THEN toggleMobileNav(n) ELSE n
  IN  updateMobileNavigation(closed, width)

handleWindowResize(n, width) ==
  LET closed == IF width > MobileBreakpoint /\ n.AppState.navigationActive
                THEN toggleMobileNav(n)
                ELSE n
  IN  updateMobileNavigation(closed, width)

\* Mutant: a link matches when its href starts with the fragment.
updateActiveNavigationByPrefix(hash, active) ==
  LET fragment == IF substring(hash, 1) = "" THEN "home" ELSE substring(hash, 1)
      matching == { l \in NavLinks : startsWith(NavLinkHrefs[l], "#" \o fragment) }
  IN  (active \cup matching) \ (NavLinks \ matching)

\* The links carrying 'active' after updateActiveNavigation has run.
updateActiveNavigation(hash, active) ==
  LET fragment == IF substring(hash, 1) = "" THEN "home" ELSE substring(hash, 1)
      matching == { l \in NavLinks : NavLinkHrefs[l] = "#" \o fragment }
  IN  (active \cup matching) \ (NavLinks \ matching)

\* scrollToSection(sectionId): the call, and whether it found the section
\* and asked the window to scroll to it.
scrollToSection(sectionId) ==
  [sectionId |-> sectionId, scrolled |-> sectionId \in SectionIds]

\* Mutant: the clicked link is marked without clearing the others.
handleNavigationKeepsOthers(n, active, l) ==
  LET href     == NavLinkHrefs[l]
      closed   == IF n.AppState.navigationActive THEN toggleMobileNav(n) ELSE n
      targetId == substring(href, 1)
  IN  [nav         |-> IF startsWith(href, "#")
                       THEN [closed EXCEPT !.AppState.currentPage = targetId]
                       ELSE closed,
       activeLinks |-> active \cup {l},
       scrollCalls |-> IF startsWith(href, "#")
                       THEN <<scrollToSection(targetId)>>
                       ELSE <<>>]

\* handleNavigation, for a click on nav link l.
handleNavigation(n, active, l) ==
  LET href     == NavLinkHrefs[l]
      closed   == IF n.AppState.navigationActive THEN toggleMobileNav(n) ELSE n
      targetId == substring(href, 1)
  IN  [nav         |-> IF startsWith(href, "#")
                       THEN [closed EXCEPT !.AppState.currentPage = targetId]
                       ELSE closed,
       activeLinks |-> (active \ NavLinks) \cup {l},
       scrollCalls |-> IF startsWith(href, "#")
                       THEN <<scrollToSection(targetId)>>
                       ELSE <<>>]

\* The document-level click listener, for a click whose target is a link.
handleSmoothScroll(href) ==
  IF startsWith(href, "#") THEN <<scrollToSection(substring(href, 1))>> ELSE <<>>

\* Mutant: Escape clears the flag and the classes, not the attributes.
handleKeyboardNavigationClassesOnly(n, key) ==
  IF key = "Escape" /\ n.AppState.navigationActive
  THEN [AppState  |-> [n.AppState EXCEPT !.navigationActive = FALSE],
        navMenu   |-> classListRemove(n.navMenu),
        navToggle |-> classListRemove(n.navToggle)]
  ELSE n

\* Mutant: Escape toggles the nav whether it is open or closed.
handleKeyboardNavigationAlwaysToggles(n, key) ==
  IF key = "Escape" THEN toggleMobileNav(n) ELSE n

\* handleKeyboardNavigation: the navigation state after a keydown.
handleKeyboardNavigation(n, key) ==
  IF key = "Escape" /\ n.AppState.navigationActive THEN toggleMobileNav(n) ELSE n

(***************************************************************************)
(* Crisis modal controller.                                                *)
(***************************************************************************)
\* Mutant: the lifeline's number is mistyped.
createEmergencyModalMistyped(id) ==
  [id        |-> id,
   className |-> "emergency-modal",
   items     |-> << [heading |-> "Immediate Crisis Support",
                     text    |-> "988 Suicide & Crisis Lifeline",
                     href    |-> "tel:998",
                     label   |-> "Call 988"],
                    [heading |-> "Emergency Services",
                     text    |-> "911 for immediate emergency",
                     href    |-> "tel:911",
                     label   |-> "Call 911"],
                    [heading |-> "Crisis Text Line",
                     text    |-> "Text HOME to 741741",
                     href    |-> "sms:741741",
                     label   |-> "Text Support"] >>,
   buttons   |-> <<"close-modal">>]

createEmergencyModal(id) ==
  [id        |-> id,
   className |-> "emergency-modal",
   items     |-> << [heading |-> "Immediate Crisis Support",
                     text    |-> "988 Suicide & Crisis Lifeline",
                     href    |-> "tel:988",
                     label   |-> "Call 988"],
                    [heading |-> "Emergency Services",
                     text    |-> "911 for immediate emergency",
                     href    |-> "tel:911",
                     label   |-> "Call 911"],
                    [heading |-> "Crisis Text Line",
                     text    |-> "Text HOME to 741741",
                     href    |-> "sms:741741",
                     label   |-> "Text Support"] >>,
   buttons   |-> <<"close-modal">>]

ModalIds(ms) == { ms[i].id : i \in DOMAIN ms }

\* A new element is none of the elements in the document.
NewModalId(ms) == CHOOSE id \in 1..(Len(ms) + 1) : id \notin ModalIds(ms)

Body == [el |-> "body", modal |-> 0]

\* Mutant: the control works as a toggle, closing the modals that are open.
showEmergencyResourcesAsToggle(doc) ==
  IF doc.modals # <<>>
  THEN [modals |-> <<>>, focus |-> Body]
  ELSE [modals |-> <<createEmergencyModal(1)>>,
        focus  |-> [el |-> "close-modal", modal |-> 1]]

\* Mutant: the focus goes to the first button of the document's modals.
showEmergencyResourcesFocusesFirst(doc) ==
  LET modal == createEmergencyModal(NewModalId(doc.modals))
      all   == Append(doc.modals, modal)
  IN  [modals |-> all,
       focus  |-> [el |-> Head(Head(all).buttons), modal |-> Head(all).id]]

\* showEmergencyResources: the document's modals and the focus afterwards.
showEmergencyResources(doc) ==
  LET modal == createEmergencyModal(NewModalId(doc.modals))
      firstFocusable == IF Len(modal.buttons) > 0 THEN Head(modal.buttons) ELSE "none"
  IN  [modals |-> Append(doc.modals, modal),
       focus  |-> IF firstFocusable = "none"
                  THEN doc.focus
                  ELSE [el |-> firstFocusable, modal |-> modal.id]]

\* modal.remove(): the element leaves the document; focus does not stay on
\* an element that is gone.
removeModal(doc, id) ==
  [modals |-> SelectSeq(doc.modals, LAMBDA m : m.id # id),
   focus  |-> IF doc.focus.modal = id THEN Body ELSE doc.focus]

ModalTargets == {"close-modal", "emergency-modal", "emergency-modal-content"}

\* Mutant: the listeners remove the first emergency modal of the document.
modalClickRemovesFirst(doc, id, target) ==
  IF target \in {"close-modal", "emergency-modal"}
  THEN removeModal(doc, Head(doc.modals).id)
  ELSE doc

\* The listeners createEmergencyModal attaches, for a click on `target` in
\* the modal `id`: the close control's own, then the modal's as the click
\* bubbles.
modalClick(doc, id, target) ==
  LET afterClose == IF target = "close-modal" THEN removeModal(doc, id) ELSE doc
  IN  IF target = "emergency-modal" THEN removeModal(afterClose, id) ELSE afterClose

Doc == [modals |-> modals, focus |-> focus]

(***************************************************************************)
(* Utils.debounce(func, wait), with wait = Wait.  A timer is the closure   *)
(* `later` of one call: it holds that call's arguments.                    *)
(***************************************************************************)
Args == {"a", "b"}

clearTimeout(ts, id) == { t \in ts : t.id # id }

\* Mutant: a call does not cancel the pending timer.
executedFunctionWithoutClear(d, args, now, id) ==
  [timers  |-> d.timers \cup { [id |-> id, due |-> now + Wait, args |-> args] },
   timeout |-> id]

\* executedFunction(...args) at time `now`; `id` is the id setTimeout returns.
executedFunction(d, args, now, id) ==
  [timers  |-> clearTimeout(d.timers, d.timeout) \cup
               { [id |-> id, due |-> now + Wait, args |-> args] },
   timeout |-> id]

\* later(), run by the browser for the timer t, which it has just taken off
\* its pending timers.
later(d, t) ==
  [timers |-> clearTimeout(d.timers \ {t}, d.timeout), timeout |-> d.timeout]

Debounced == [timers |-> timers, timeout |-> timeout]

(***************************************************************************)
(* Buttons: the hero buttons' click handler, and the ripple every `.btn`   *)
(* gets on a click.  A ripple timer is the closure of one click: it holds  *)
(* that click's ripple.                                                    *)
(***************************************************************************)
\* handleGetStarted: the placeholder's alert.
handleGetStarted == <<"Welcome! User dashboard and onboarding coming soon.">>

\* Mutant: the label is compared as the markup lays it out.
handleHeroButtonClickUntrimmed(textContent) ==
  LET buttonText == textContent
  IN  [alerts      |-> IF buttonText = "Get Started" THEN handleGetStarted ELSE <<>>,
       scrollCalls |-> IF buttonText # "Get Started" /\ buttonText = "Learn More"
                       THEN <<scrollToSection("features")>>
                       ELSE <<>>]

\* handleHeroButtonClick, for a click on a hero button with this textContent.
handleHeroButtonClick(textContent) ==
  LET buttonText == trim(textContent)
  IN  [alerts      |-> IF buttonText = "Get Started" THEN handleGetStarted ELSE <<>>,
       scrollCalls |-> IF buttonText # "Get Started" /\ buttonText = "Learn More"
                       THEN <<scrollToSection("features")>>
                       ELSE <<>>]

\* createRippleEffect at time `now` (ms) for a click on `button`; `id` names
\* the span it creates and the timer setTimeout returns.
createRippleEffect(p, button, now, id) ==
  [ripples      |-> p.ripples \cup { [id |-> id, button |-> button] },
   rippleTimers |-> p.rippleTimers \cup
                    { [id |-> id, ripple |-> id, due |-> now + RippleDuration] }]

\* Mutant: the callback clears the button of its ripples.
rippleRemoveAllOfButton(p, t) ==
  LET own == { r \in p.ripples : r.id = t.ripple }
  IN  [ripples      |-> { r \in p.ripples : \A o \in own : r.button # o.button },
       rippleTimers |-> p.rippleTimers \ {t}]

\* The callback of the timer t, `ripple.remove()`, run by the browser, which
\* has just taken t off its pending timers.
rippleRemove(p, t) ==
  [ripples      |-> { r \in p.ripples : r.id # t.ripple },
   rippleTimers |-> p.rippleTimers \ {t}]

Ripples == [ripples |-> ripples, rippleTimers |-> rippleTimers]

(***************************************************************************)
(* Preferences: what localStorage may hold under 'mindwell-preferences',   *)
(* and the load at the end of startup.                                     *)
(***************************************************************************)
\* A storage whose access raises; a missing key; an empty, a malformed and
\* a well-formed value.
StoredPreferences ==
  { [raises |-> TRUE,  present |-> FALSE, value |-> ""],
    [raises |-> FALSE, present |-> FALSE, value |-> ""],
    [raises |-> FALSE, present |-> TRUE,  value |-> ""],
    [raises |-> FALSE, present |-> TRUE,  value |-> "{theme"],
    [raises |-> FALSE, present |-> TRUE,  value |-> "{}"] }

\* localStorage.getItem(key): raises, or returns null or the stored string.
getItem(storage) ==
  IF storage.raises
  THEN [threw |-> TRUE, isNull |-> TRUE, value |-> ""]
  ELSE [threw |-> FALSE, isNull |-> ~storage.present, value |-> storage.value]

\* JSON.parse(text) throws a SyntaxError unless the text is a JSON value.
JSONparse(text) ==
  LET first == SubSeq(text, 1, 1)
      last  == SubSeq(text, Len(text), Len(text))
  IN  [threw |-> ~(\/ text \in {"true", "false", "null"}
                   \/ (Len(text) >= 2 /\ first = "{" /\ last = "}")
                   \/ (Len(text) >= 2 /\ first = "[" /\ last = "]"))]

\* Mutant: the load without its try/catch.
loadUserPreferencesWithoutCatch(storage) ==
  LET preferences == getItem(storage)
      truthy      == ~preferences.threw /\ ~preferences.isNull /\ preferences.value # ""
      threw       == preferences.threw \/ (truthy /\ JSONparse(preferences.value).threw)
  IN  [raised |-> threw,
       log    |-> IF threw THEN <<>>
                  ELSE IF truthy THEN <<"User preferences loaded:">>
                  ELSE <<>>]

\* loadUserPreferences: whether it raised, and what it logged.
loadUserPreferences(storage) ==
  LET preferences == getItem(storage)
      truthy      == ~preferences.threw /\ ~preferences.isNull /\ preferences.value # ""
      threw       == preferences.threw \/ (truthy /\ JSONparse(preferences.value).threw)
  IN  [raised |-> FALSE,
       log    |-> IF threw THEN <<"No user preferences found or error loading:">>
                  ELSE IF truthy THEN <<"User preferences loaded:">>
                  ELSE <<>>]

(***************************************************************************)
(* The page: one action per dispatched event.                              *)
(***************************************************************************)
InitialAppState ==
  [currentUser |-> "null", currentPage |-> "home", moodData |-> <<>>,
   navigationActive |-> FALSE]

NoEvent == [type |-> "none", arg |-> 0]

Event(type, arg) == [type |-> type, arg |-> arg]

RippleIdle ==
  /\ ripples = {}
  /\ rippleTimers = {}
  /\ removals = <<>>

DebounceIdle ==
  /\ timeout = 0
  /\ timers = {}
  /\ clock = 0
  /\ calls = <<>>
  /\ invocations = <<>>

Init ==
  /\ pc = "loading"
  /\ AppState = InitialAppState
  /\ navToggle \in InitialToggles
  /\ navMenu \in InitialMenus
  /\ activeLinks \in SUBSET NavLinks
  /\ innerWidth \in Widths
  /\ locationHash \in LocationHashes
  /\ modals = <<>>
  /\ focus = Body
  /\ keyboardNav = FALSE
  /\ scrollCalls = <<>>
  /\ alerts = <<>>
  /\ toggled = FALSE
  /\ lastEvent = NoEvent
  /\ DebounceIdle
  /\ RippleIdle

SetNav(n) ==
  /\ AppState' = n.AppState
  /\ navMenu' = n.navMenu
  /\ navToggle' = n.navToggle

SetDoc(doc) ==
  /\ modals' = doc.modals
  /\ focus' = doc.focus

\* DOMContentLoaded: initializeApp.  The listeners are registered before the
\* preferences are loaded; `completed` says that initializeApp reached its
\* last statement.
InitializeApp ==
  /\ pc = "loading"
  /\ pc' = "ready"
  /\ activeLinks' = updateActiveNavigation(locationHash, activeLinks)
  /\ SetNav(updateMobileNavigation(Nav, innerWidth))
  /\ \E storage \in StoredPreferences :
       LET r == loadUserPreferences(storage)
       IN  lastEvent' = Event("DOMContentLoaded",
                              [storage   |-> storage,
                               raised    |-> r.raised,
                               log       |-> r.log,
                               completed |-> ~r.raised])
  /\ UNCHANGED <<innerWidth, locationHash, modals, focus, keyboardNav, scrollCalls,
                 alerts, toggled>>
  /\ UNCHANGED <<debounceVars, rippleVars>>

\* A click on the nav toggle: toggleMobileNav.
NavToggleClick ==
  /\ pc = "ready"
  /\ navToggle.present
  /\ SetNav(toggleMobileNav(Nav))
  /\ toggled' = TRUE
  /\ scrollCalls' = <<>>
  /\ alerts' = <<>>
  /\ lastEvent' = Event("navToggleClick",
                        IF lastEvent.type = "navToggleClick" /\ lastEvent.arg.run = 1
                        THEN [run |-> 2, start |-> lastEvent.arg.start]
                        ELSE [run |-> 1, start |-> Nav])
  /\ UNCHANGED <<pc, activeLinks, innerWidth, locationHash, modals, focus, keyboardNav>>
  /\ UNCHANGED <<debounceVars, rippleVars>>

\* A click on nav link l: handleNavigation on the link, then
\* handleSmoothScroll on the document as the click bubbles.
NavLinkClick(l) ==
  /\ pc = "ready"
  /\ LET r == handleNavigation(Nav, activeLinks, l)
     IN  /\ SetNav(r.nav)
         /\ activeLinks' = r.activeLinks
         /\ scrollCalls' = r.scrollCalls \o handleSmoothScroll(NavLinkHrefs[l])
  /\ toggled' = (toggled \/ AppState.navigationActive)
  /\ alerts' = <<>>
  /\ lastEvent' = Event("navLinkClick",
                        [link |-> l, wasOpen |-> AppState.navigationActive])
  /\ UNCHANGED <<pc, innerWidth, locationHash, modals, focus, keyboardNav>>
  /\ UNCHANGED <<debounceVars, rippleVars>>

\* A click on the emergency button: handleEmergencyClick.
EmergencyClick ==
  /\ pc = "ready"
  /\ Len(modals) < MaxModals
  /\ SetDoc(showEmergencyResources(Doc))
  /\ scrollCalls' = <<>>
  /\ alerts' = <<>>
  /\ lastEvent' = Event("emergencyClick", NewModalId(modals))
  /\ UNCHANGED <<pc, AppState, navToggle, navMenu, activeLinks, innerWidth,
                 locationHash, keyboardNav, toggled>>
  /\ UNCHANGED <<debounceVars, rippleVars>>

\* A click inside the i-th modal of the document, on `target`.
ModalClick(i, target) ==
  /\ pc = "ready"
  /\ i \in DOMAIN modals
  /\ SetDoc(modalClick(Doc, modals[i].id, target))
  /\ scrollCalls' = <<>>
  /\ alerts' = <<>>
  /\ lastEvent' = Event("modalClick", [modal |-> modals[i].id, target |-> target])
  /\ UNCHANGED <<pc, AppState, navToggle, navMenu, activeLinks, innerWidth,
                 locationHash, keyboardNav, toggled>>
  /\ UNCHANGED <<debounceVars, rippleVars>>

\* Mutant: Escape also dismisses the modal opened last.
KeyDownDismissesModal(key) ==
  /\ pc = "ready"
  /\ SetNav(handleKeyboardNavigation(Nav, key))
  /\ SetDoc(IF key = "Escape" /\ modals # <<>>
            THEN removeModal(Doc, modals[Len(modals)].id)
            ELSE Doc)
  /\ keyboardNav' = IF key = "Tab" THEN TRUE ELSE keyboardNav
  /\ toggled' = (toggled \/ (key = "Escape" /\ AppState.navigationActive))
  /\ scrollCalls' = <<>>
  /\ alerts' = <<>>
  /\ lastEvent' = Event("keydown",
                        [key |-> key, wasOpen |-> AppState.navigationActive])
  /\ UNCHANGED <<pc, activeLinks, innerWidth, locationHash>>
  /\ UNCHANGED <<debounceVars, rippleVars>>

\* A keydown: handleKeyboardNavigation.
KeyDown(key) ==
  /\ pc = "ready"
  /\ SetNav(handleKeyboardNavigation(Nav, key))
  /\ keyboardNav' = IF key = "Tab" THEN TRUE ELSE keyboardNav
  /\ toggled' = (toggled \/ (key = "Escape" /\ AppState.navigationActive))
  /\ scrollCalls' = <<>>
  /\ alerts' = <<>>
  /\ lastEvent' = Event("keydown",
                        [key |-> key, wasOpen |-> AppState.navigationActive])
  /\ UNCHANGED <<pc, activeLinks, innerWidth, locationHash, modals, focus>>
  /\ UNCHANGED <<debounceVars, rippleVars>>

\* A mousedown: the listener of setupFocusManagement.
MouseDown ==
  /\ pc = "ready"
  /\ keyboardNav' = FALSE
  /\ scrollCalls' = <<>>
  /\ alerts' = <<>>
  /\ lastEvent' = Event("mousedown", 0)
  /\ UNCHANGED <<pc, AppState, navToggle, navMenu, activeLinks, innerWidth,
                 locationHash, modals, focus, toggled>>
  /\ UNCHANGED <<debounceVars, rippleVars>>

\* The window is resized to width w: handleWindowResize.
WindowResize(w) ==
  /\ pc = "ready"
  /\ innerWidth' = w
  /\ SetNav(handleWindowResize(Nav, w))
  /\ toggled' = (toggled \/ (w > MobileBreakpoint /\ AppState.navigationActive))
  /\ scrollCalls' = <<>>
  /\ alerts' = <<>>
  /\ lastEvent' = Event("resize", [wasWide |-> innerWidth > MobileBreakpoint,
                                   wasOpen |-> AppState.navigationActive])
  /\ UNCHANGED <<pc, activeLinks, locationHash, modals, focus, keyboardNav>>
  /\ UNCHANGED <<debounceVars, rippleVars>>

\* The URL fragment changes to h without a click on a nav link (an edited
\* address, the back button): the browser dispatches hashchange, for which
\* setupEventListeners registers no listener.
HashChange(h) ==
  /\ pc = "ready"
  /\ h # locationHash
  /\ locationHash' = h
  /\ scrollCalls' = <<>>
  /\ alerts' = <<>>
  /\ lastEvent' = Event("hashchange", 0)
  /\ UNCHANGED <<pc, AppState, navToggle, navMenu, activeLinks, innerWidth,
                 modals, focus, keyboardNav, toggled>>
  /\ UNCHANGED <<debounceVars, rippleVars>>

Next ==
  \/ InitializeApp
  \/ NavToggleClick
  \/ \E l \in NavLinks : NavLinkClick(l)
  \/ EmergencyClick
  \/ \E i \in 1..MaxModals, target \in ModalTargets : ModalClick(i, target)
  \/ \E key \in Keys : KeyDown(key)
  \/ MouseDown
  \/ \E w \in Widths : WindowResize(w)
  \/ \E h \in LocationHashes : HashChange(h)

Spec == Init /\ [][Next]_vars

(***************************************************************************)
(* A debounced function in use: calls, the passing of time, timers firing. *)
(***************************************************************************)
InitDebounce ==
  /\ pc = "loading"
  /\ AppState = InitialAppState
  /\ navToggle = [present |-> TRUE, active |-> FALSE, aria |-> "unset"]
  /\ navMenu = [present |-> TRUE, active |-> FALSE, aria |-> "unset"]
  /\ activeLinks = {}
  /\ innerWidth = MobileBreakpoint
  /\ locationHash = ""
  /\ modals = <<>>
  /\ focus = Body
  /\ keyboardNav = FALSE
  /\ scrollCalls = <<>>
  /\ alerts = <<>>
  /\ toggled = FALSE
  /\ lastEvent = NoEvent
  /\ DebounceIdle
  /\ RippleIdle

\* The debounced function is called with `args`.
Call(args) ==
  /\ Len(calls) < MaxCalls
  /\ LET r == executedFunction(Debounced, args, clock, Len(calls) + 1)
     IN  /\ timers' = r.timers
         /\ timeout' = r.timeout
  /\ calls' = Append(calls, [time |-> clock, args |-> args])
  /\ UNCHANGED <<clock, invocations>>
  /\ UNCHANGED <<uiVars, rippleVars>>

\* A timer that is due fires: the browser runs its `later`, which calls func.
Fire(t) ==
  /\ t \in timers
  /\ clock >= t.due
  /\ LET r == later(Debounced, t)
     IN  /\ timers' = r.timers
         /\ timeout' = r.timeout
  /\ invocations' = Append(invocations,
                           [time |-> clock, args |-> t.args, timer |-> t.id,
                            after |-> Len(calls)])
  /\ UNCHANGED <<clock, calls>>
  /\ UNCHANGED <<uiVars, rippleVars>>

\* Time passes; a timer may fire later than it is due, never earlier.
Tick ==
  /\ clock < MaxTime
  /\ clock' = clock + 1
  /\ UNCHANGED <<timeout, timers, calls, invocations>>
  /\ UNCHANGED <<uiVars, rippleVars>>

NextDebounce ==
  \/ \E args \in Args : Call(args)
  \/ \E t \in timers : Fire(t)
  \/ Tick

SpecDebounce == InitDebounce /\ [][NextDebounce]_vars

(***************************************************************************)
(* The buttons in use: clicks on the hero buttons, the passing of time,    *)
(* ripple timers firing.  The clock counts ticks of TickMs milliseconds.   *)
(***************************************************************************)
RipplesCreated == Cardinality(ripples) + Len(removals)

\* A click on hero button b, a BUTTON element of class `btn`: its own
\* listeners handleHeroButtonClick and createRippleEffect run; the
\* document-level handleSmoothScroll finds a target that is not an anchor.
HeroButtonClick(b) ==
  /\ pc = "ready"
  /\ RipplesCreated < MaxRipples
  /\ clock * TickMs + RippleDuration <= MaxTime * TickMs
  /\ LET r == handleHeroButtonClick(HeroButtons[b])
     IN  /\ alerts' = r.alerts
         /\ scrollCalls' = r.scrollCalls
  /\ LET p == createRippleEffect(Ripples, b, clock * TickMs, RipplesCreated + 1)
     IN  /\ ripples' = p.ripples
         /\ rippleTimers' = p.rippleTimers
  /\ lastEvent' = Event("heroButtonClick", b)
  /\ UNCHANGED <<pc, AppState, navToggle, navMenu, activeLinks, innerWidth,
                 locationHash, modals, focus, keyboardNav, toggled>>
  /\ UNCHANGED <<debounceVars, removals>>

\* A ripple timer that is due fires: the browser runs its callback.
RippleTimeout(t) ==
  /\ t \in rippleTimers
  /\ clock * TickMs >= t.due
  /\ LET p == rippleRemove(Ripples, t)
     IN  /\ ripples' = p.ripples
         /\ rippleTimers' = p.rippleTimers
         /\ removals' = Append(removals,
                               [timer   |-> t.id,
                                time    |-> clock * TickMs,
                                removed |-> { r.id : r \in ripples \ p.ripples }])
  /\ UNCHANGED <<uiVars, debounceVars>>

NextButtons ==
  \/ InitializeApp
  \/ \E b \in DOMAIN HeroButtons : HeroButtonClick(b)
  \/ \E t \in rippleTimers : RippleTimeout(t)
  \/ Tick

\* The browser's clock advances and its timers fire.
SpecButtons ==
  /\ InitDebounce
  /\ [][NextButtons]_vars
  /\ WF_vars(Tick)
  /\ WF_vars(\E t \in rippleTimers : RippleTimeout(t))

(***************************************************************************)
(* Reading an action reference (a tel: or sms: URI): its scheme, the       *)
(* number it targets, and the message body its query carries.              *)
(***************************************************************************)
indexOf(s, c) ==
  IF \E i \in 1..Len(s) : SubSeq(s, i, i) = c
  THEN CHOOSE i \in 1..Len(s) :
         /\ SubSeq(s, i, i) = c
         /\ \A j \in 1..(i - 1) : SubSeq(s, j, j) # c
  ELSE 0

UriScheme(href) == SubSeq(href, 1, indexOf(href, ":") - 1)

UriPath(href) ==
  LET rest == substring(href, indexOf(href, ":"))
  IN  IF indexOf(rest, "?") = 0 THEN rest ELSE SubSeq(rest, 1, indexOf(rest, "?") - 1)

UriBody(href) ==
  LET rest  == substring(href, indexOf(href, ":"))
      query == IF indexOf(rest, "?") = 0 THEN "" ELSE substring(rest, indexOf(rest, "?"))
  IN  IF startsWith(query, "body=") THEN substring(query, Len("body=")) ELSE ""

ActionTarget(item) ==
  [scheme |-> UriScheme(item.href), target |-> UriPath(item.href),
   body |-> UriBody(item.href)]

(***************************************************************************)
(* The claims.                                                             *)
(***************************************************************************)

\* C1: after the emergency control has been activated, exactly one emergency
\* modal is in the document, also when it is activated twice without a close
\* in between.
C1_ExactlyOneModal ==
  lastEvent.type = "emergencyClick" => Len(modals) = 1

\* C2: from every state of the page, activating the emergency control
\* completes (the handler is defined there and has a result), and right
\* after it the document holds at least one emergency modal: the one this
\* activation created.
C2_EmergencyAlwaysPresents ==
  /\ (pc = "ready" /\ Len(modals) < MaxModals) => ENABLED EmergencyClick
  /\ lastEvent.type = "emergencyClick" =>
       /\ Len(modals) >= 1
       /\ lastEvent.arg \in ModalIds(modals)
       /\ modals[Len(modals)] = createEmergencyModal(lastEvent.arg)

\* C2's case: the control activated with the mobile nav open, on a wide
\* viewport, and a modal already open.
C2_Witness ==
  /\ lastEvent.type = "emergencyClick"
  /\ AppState.navigationActive
  /\ innerWidth > MobileBreakpoint
  /\ Len(modals) = 2

C4_ModalClickRemovesOnlyItsModal ==
  [][lastEvent'.type = "modalClick" =>
       LET id     == lastEvent'.arg.modal
           target == lastEvent'.arg.target
       IN  /\ id \in ModalIds(modals)
           /\ target \in {"close-modal", "emergency-modal"} =>
                modals' = SelectSeq(modals, LAMBDA m : m.id # id)
           /\ target = "emergency-modal-content" => modals' = modals]_vars

\* C4's case: of two open modals one was closed by a click on its backdrop,
\* and the other is still in the document.
C4_Witness ==
  /\ lastEvent.type = "modalClick"
  /\ lastEvent.arg.target = "emergency-modal"
  /\ Len(modals) = 1
  /\ lastEvent.arg.modal \notin ModalIds(modals)

C6_ResizeAboveBreakpointCloses ==
  [][(lastEvent'.type = "resize" /\ innerWidth' > MobileBreakpoint) =>
       /\ ~AppState'.navigationActive
       /\ ~navMenu'.active
       /\ ~navToggle'.active
       /\ AppState.navigationActive =>
            /\ navToggle.present => navToggle'.aria = "false"
            /\ navMenu.present => navMenu'.aria = "true"
       /\ handleWindowResize(Nav', innerWidth') = Nav']_vars

\* C6's case: a resize above the breakpoint has closed a nav that was open.
C6_Witness ==
  /\ lastEvent.type = "resize"
  /\ innerWidth > MobileBreakpoint
  /\ lastEvent.arg.wasOpen
  /\ ~AppState.navigationActive
  /\ navMenu.present /\ navMenu.aria = "true"

TwoTogglesFromClosed ==
  /\ lastEvent.type = "navToggleClick"
  /\ lastEvent.arg.run = 2
  /\ ~lastEvent.arg.start.AppState.navigationActive

\* C7: toggleMobileNav called twice in a row from the closed state restores
\* navigationActive, the 'active' class of the menu and of the toggle,
\* aria-expanded and aria-hidden to their values before the first call.
C7_TwoTogglesRestoreAll ==
  TwoTogglesFromClosed => Nav = lastEvent.arg.start

\* C7, amended: toggleMobileNav called twice in a row from the closed state
\* restores navigationActive and the 'active' class of the menu and of the
\* toggle; it leaves aria-expanded "false" and aria-hidden "true", which are
\* their values before the first call only where the elements carried them
\* already: an attribute that was absent stays set.
C7_TwoTogglesRestoreStateAndClasses ==
  TwoTogglesFromClosed =>
    LET start == lastEvent.arg.start
    IN  /\ AppState = start.AppState
        /\ navMenu.present = start.navMenu.present
        /\ navMenu.active = start.navMenu.active
        /\ navToggle.present = start.navToggle.present
        /\ navToggle.active = start.navToggle.active
        /\ navToggle.aria = "false"
        /\ navMenu.present => navMenu.aria = "true"
        /\ (Nav = start) <=>
             /\ start.navToggle.aria = "false"
             /\ navMenu.present => start.navMenu.aria = "true"

\* C7's case: two toggles in a row from a closed nav whose menu carried no
\* aria-hidden.
C7_Witness ==
  /\ TwoTogglesFromClosed
  /\ lastEvent.arg.start.navMenu.present
  /\ lastEvent.arg.start.navMenu.aria = "unset"

\* C8: after updateActiveNavigation has run with URL fragment F, a nav link
\* carries 'active' if and only if its href is exactly "#" followed by F,
\* where an empty fragment counts as "home"; whatever links were active
\* before.
C8_ActiveLinkIsExactMatch ==
  lastEvent.type = "DOMContentLoaded" =>
    LET F == IF locationHash = "" THEN "home"
             ELSE SubSeq(locationHash, 2, Len(locationHash))
    IN  \A l \in NavLinks : (l \in activeLinks) <=> (NavLinkHrefs[l] = "#" \o F)

\* C8's case: the fragment is a proper prefix of another link's target, and
\* only the link it names is active.
C8_Witness ==
  /\ lastEvent.type = "DOMContentLoaded"
  /\ locationHash = "#feat"
  /\ activeLinks = {3}

\* Every call but the first arrived before the wait interval of the call
\* before it had elapsed.
Burst ==
  \A k \in 2..Len(calls) : calls[k].time < calls[k - 1].time + Wait

\* C9: func runs only for the last call made so far (never while a newer
\* call is pending), with that call's arguments, no earlier than that call's
\* wait interval, and at most once per call; so N >= 1 calls that each
\* arrive within the wait of the one before invoke func not at all while
\* the last call's timer is pending, and exactly once when it has fired.
C9_DebounceInvokesLastCallOnce ==
  /\ \A i \in DOMAIN invocations :
       LET v == invocations[i]
       IN  /\ v.after >= 1
           /\ v.timer = v.after
           /\ v.args = calls[v.after].args
           /\ v.time >= calls[v.after].time + Wait
  /\ \A i, j \in DOMAIN invocations :
       i # j => invocations[i].timer # invocations[j].timer
  /\ (calls # <<>> /\ Burst) =>
       Len(invocations) = (IF timers = {} THEN 1 ELSE 0)

\* C9's case: three calls in one burst, the first and the last with
\* different arguments, and func has run once, with the last call's.
C9_Witness ==
  /\ Len(calls) = 3
  /\ Burst
  /\ calls[1].args # calls[3].args
  /\ calls[3].time > calls[1].time
  /\ Len(invocations) = 1
  /\ invocations[1].args = calls[3].args

\* C10: a resize handled at a width of at most 768 leaves navigationActive,
\* the 'active' classes and the ARIA attributes as they were, whether the
\* nav was open or closed.
C10_ResizeAtMobileWidthKeepsNav ==
  [][(lastEvent'.type = "resize" /\ innerWidth' <= MobileBreakpoint) =>
       Nav' = Nav]_vars

\* C10's case: a nav opened on a wide viewport is still open after the
\* resize to a narrow one.
C10_Witness ==
  /\ lastEvent.type = "resize"
  /\ lastEvent.arg.wasWide
  /\ innerWidth <= MobileBreakpoint
  /\ lastEvent.arg.wasOpen
  /\ AppState.navigationActive
  /\ navMenu.active

\* s is the text t with white space, if any, before and after it.
TrimmedIs(s, t) ==
  \E i \in 1..Len(s), j \in 1..Len(s) :
    /\ SubSeq(s, i, j) = t
    /\ \A k \in (1..(i - 1)) \cup ((j + 1)..Len(s)) : SubSeq(s, k, k) \in WhiteSpace

\* C11: a click on a hero button whose trimmed label is 'Learn More'
\* requests one scroll, to the section 'features', and shows no onboarding
\* alert; on one whose trimmed label is 'Get Started' it shows the
\* onboarding alert and requests no scroll; on any other it does neither.
C11_HeroButtonDispatch ==
  lastEvent.type = "heroButtonClick" =>
    LET label == HeroButtons[lastEvent.arg]
    IN  /\ TrimmedIs(label, "Learn More") =>
             /\ Len(scrollCalls) = 1
             /\ scrollCalls[1].sectionId = "features"
             /\ alerts = <<>>
        /\ TrimmedIs(label, "Get Started") =>
             /\ alerts = <<"Welcome! User dashboard and onboarding coming soon.">>
             /\ scrollCalls = <<>>
        /\ (~TrimmedIs(label, "Learn More") /\ ~TrimmedIs(label, "Get Started")) =>
             /\ alerts = <<>>
             /\ scrollCalls = <<>>

\* C11's case: the button whose label the markup pads with white space has
\* been clicked, and the scroll to 'features' was requested.
C11_Witness ==
  /\ lastEvent.type = "heroButtonClick"
  /\ HeroButtons[lastEvent.arg] # "Learn More"
  /\ TrimmedIs(HeroButtons[lastEvent.arg], "Learn More")
  /\ scrollCalls = <<[sectionId |-> "features", scrolled |-> TRUE]>>

\* C12: after a click on nav link L has been handled, from any state, L is
\* the only nav link carrying 'active'; the mobile nav is closed, and if it
\* had been open the classes are off and the ARIA attributes say closed;
\* if L's href is '#id', currentPage is 'id'.
C12_NavLinkClickOutcome ==
  lastEvent.type = "navLinkClick" =>
    LET l    == lastEvent.arg.link
        href == NavLinkHrefs[l]
    IN  /\ activeLinks = {l}
        /\ ~AppState.navigationActive
        /\ lastEvent.arg.wasOpen =>
             /\ navMenu.present => (~navMenu.active /\ navMenu.aria = "true")
             /\ navToggle.present => (~navToggle.active /\ navToggle.aria = "false")
        /\ (Len(href) > 0 /\ SubSeq(href, 1, 1) = "#") =>
             "#" \o AppState.currentPage = href

\* C12's case: an in-page link was clicked while the mobile nav was open.
C12_Witness ==
  /\ lastEvent.type = "navLinkClick"
  /\ lastEvent.arg.wasOpen
  /\ NavLinkHrefs[lastEvent.arg.link] = "#features"
  /\ AppState.currentPage = "features"
  /\ navMenu.present
  /\ navMenu.aria = "true"
  /\ activeLinks = {lastEvent.arg.link}

\* C13: in every state after toggleMobileNav has first run, the menu and
\* the toggle carry 'active' iff navigationActive is true, aria-expanded on
\* the toggle equals navigationActive and aria-hidden on the menu equals
\* its negation.
C13_PresentationMirrorsState ==
  toggled =>
    /\ navToggle.present =>
         /\ navToggle.active = AppState.navigationActive
         /\ navToggle.aria = (IF AppState.navigationActive THEN "true" ELSE "false")
    /\ navMenu.present =>
         /\ navMenu.active = AppState.navigationActive
         /\ navMenu.aria = (IF AppState.navigationActive THEN "false" ELSE "true")

\* C13's case: a nav whose markup set no ARIA attribute was opened and then
\* closed by Escape, and both elements say closed.
C13_Witness ==
  /\ toggled
  /\ lastEvent.type = "keydown"
  /\ lastEvent.arg.key = "Escape"
  /\ lastEvent.arg.wasOpen
  /\ ~AppState.navigationActive
  /\ navMenu.present
  /\ navMenu.aria = "true"
  /\ navToggle.aria = "false"

\* C14: whenever the URL fragment has changed after startup without a
\* nav-link click, exactly the nav link matching the new fragment ('home'
\* if it is empty) is active.
C14_HashChangeUpdatesActiveLinks ==
  lastEvent.type = "hashchange" =>
    LET fragment == IF Len(locationHash) <= 1
                    THEN "home"
                    ELSE SubSeq(locationHash, 2, Len(locationHash))
    IN  activeLinks = { l \in NavLinks : NavLinkHrefs[l] = "#" \o fragment }

\* C15: one click on a nav link whose href is an in-page anchor results in
\* exactly one call of scrollToSection.
C15_OneScrollPerNavLinkClick ==
  (/\ lastEvent.type = "navLinkClick"
   /\ startsWith(NavLinkHrefs[lastEvent.arg.link], "#")) =>
    Len(scrollCalls) = 1

RippleIds == { r.id : r \in ripples }

\* Every ripple in the document has one pending timer, its own, and every
\* pending timer holds a ripple in the document.
OneTimerPerRipple ==
  /\ \A r \in ripples : Cardinality({ t \in rippleTimers : t.ripple = r.id }) = 1
  /\ \A t \in rippleTimers : t.ripple \in RippleIds

\* Every timer that fired removed one ripple, its own, and no ripple was
\* removed twice.
RemovedOnceByOwnTimer ==
  /\ \A k \in DOMAIN removals : removals[k].removed = {removals[k].timer}
  /\ \A j, k \in DOMAIN removals : removals[j].removed = removals[k].removed => j = k

\* C16: a click on a button adds one ripple and its removal timer and keeps
\* the ripples and timers there are; each ripple is removed by its own
\* timer, once, and by no other; no ripple remains when no timer is pending;
\* and every ripple is eventually removed.
C16_EveryRippleRemovedByItsTimer ==
  /\ [][(\E b \in DOMAIN HeroButtons : HeroButtonClick(b)) =>
          /\ ripples \subseteq ripples'
          /\ rippleTimers \subseteq rippleTimers'
          /\ Cardinality(ripples') = Cardinality(ripples) + 1
          /\ Cardinality(rippleTimers') = Cardinality(rippleTimers) + 1]_vars
  /\ [](OneTimerPerRipple /\ RemovedOnceByOwnTimer)
  /\ [](rippleTimers = {} => ripples = {})
  /\ \A i \in 1..MaxRipples : (i \in RippleIds) ~> (i \notin RippleIds)

\* C16's case: two ripples were on one button at once, the timer of the
\* first has fired and removed it, and the second is still there.
C16_Witness ==
  /\ Len(removals) = 1
  /\ removals[1].removed = {1}
  /\ \E r \in ripples : r.id = 2 /\ r.button = 1
  /\ \E t \in rippleTimers : t.ripple = 2 /\ t.due <= removals[1].time + TickMs
  /\ lastEvent = Event("heroButtonClick", 1)

\* C17: right after showEmergencyResources has run, the focus is on the
\* Close button of the modal that this call created and appended, the last
\* modal of the document; not on a control of an earlier modal nor on the
\* page.
C17_FocusOnNewModalClose ==
  lastEvent.type = "emergencyClick" =>
    LET new == modals[Len(modals)]
    IN  /\ new.id = lastEvent.arg
        /\ focus.modal = new.id
        /\ focus.el = "close-modal"
        /\ \E k \in DOMAIN new.buttons : new.buttons[k] = focus.el
        /\ \A i \in 1..(Len(modals) - 1) : focus.modal # modals[i].id
        /\ focus # Body

\* C17's case: the emergency control was activated with an earlier modal
\* still open, and the focus is in the new modal.
C17_Witness ==
  /\ lastEvent.type = "emergencyClick"
  /\ Len(modals) = 2
  /\ focus = [el |-> "close-modal", modal |-> modals[2].id]
  /\ modals[1].id # modals[2].id

\* C18: an Escape keydown while the mobile nav is open closes it:
\* navigationActive false, the 'active' classes off, aria-expanded "false",
\* aria-hidden "true"; an Escape keydown while it is closed leaves
\* navigationActive, the classes and the ARIA attributes as they were.
C18_EscapeClosesNeverOpens ==
  [][(lastEvent'.type = "keydown" /\ lastEvent'.arg.key = "Escape") =>
       IF AppState.navigationActive
       THEN /\ ~AppState'.navigationActive
            /\ ~navMenu'.active
            /\ ~navToggle'.active
            /\ navToggle.present => navToggle'.aria = "false"
            /\ navMenu.present => navMenu'.aria = "true"
       ELSE Nav' = Nav]_vars

\* C18's case: Escape was pressed with the nav open on a wide viewport, and
\* the nav is closed.
C18_Witness ==
  /\ lastEvent.type = "keydown"
  /\ lastEvent.arg = [key |-> "Escape", wasOpen |-> TRUE]
  /\ innerWidth > MobileBreakpoint
  /\ ~AppState.navigationActive
  /\ navToggle.present
  /\ ~navToggle.active

\* C19: a keydown, Escape included, leaves the modals of the document as
\* they were; a modal leaves the document only in a click on its own Close
\* button or on its own backdrop.
C19_KeydownKeepsModals ==
  [][/\ lastEvent'.type = "keydown" => (modals' = modals /\ focus' = focus)
     /\ \A id \in ModalIds(modals) \ ModalIds(modals') :
          /\ lastEvent'.type = "modalClick"
          /\ lastEvent'.arg.modal = id
          /\ lastEvent'.arg.target \in {"close-modal", "emergency-modal"}]_vars

\* C19's case: Escape was pressed with two modals open and the focus in the
\* newer one, and both are still there.
C19_Witness ==
  /\ lastEvent.type = "keydown"
  /\ lastEvent.arg.key = "Escape"
  /\ Len(modals) = 2
  /\ focus.el = "close-modal"
  /\ focus.modal = modals[2].id

\* C20: whatever localStorage holds under 'mindwell-preferences' (nothing,
\* a malformed value, a well-formed value, or a storage whose read raises),
\* loadUserPreferences raises nothing, initializeApp reaches its end,
\* AppState is as it was before startup, and the listeners registered in
\* startup are in effect: the emergency control responds.
C20_StartupCompletes ==
  /\ pc = "loading" => ENABLED InitializeApp
  /\ lastEvent.type = "DOMContentLoaded" =>
       /\ ~lastEvent.arg.raised
       /\ lastEvent.arg.completed
       /\ AppState = InitialAppState
       /\ pc = "ready"
       /\ ENABLED EmergencyClick
       /\ (ENABLED NavToggleClick) <=> navToggle.present

\* C20's case: startup has run with a malformed value stored, and the load
\* logged the error it caught.
C20_Witness ==
  /\ lastEvent.type = "DOMContentLoaded"
  /\ lastEvent.arg.storage.present
  /\ lastEvent.arg.storage.value = "{theme"
  /\ lastEvent.arg.log = <<"No user preferences found or error loading:">>
  /\ pc = "ready"

====
